---- MODULE Spec2Model ----
(***************************************************************************)
(* A model of phemap.Phemap (src/phemap/phemap.py): two pandas tables      *)
(* built once by __init__ and five query methods over them.                *)
(*                                                                         *)
(* A str is a tuple of one-character strings (<<"0","8">> is '08'), so     *)
(* that float() and str.split() are computed character by character.       *)
(* A float is an integer scaled by Scale = 10^FracDigits; every string of  *)
(* the model has at most FracDigits fractional digits, so the scaled       *)
(* integer is exact and compares as the double does.                       *)
(* pd.to_numeric and float() agree on these strings. An exclude range may  *)
(* be the nan of an empty cell; the phecode and icd10 cells are strings.   *)
(***************************************************************************)
EXTENDS Integers, Sequences, FiniteSets, TLC

\* ------------------------------------------------------------------ bounds

\* Rows of the two files together: the definitions file and the mapping file.
MaxRows == 2

\* Fractional decimal digits a modelled float keeps.
FracDigits == 1

RECURSIVE Pow10(_)
Pow10(n) == IF n = 0 THEN 1 ELSE 10 * Pow10(n - 1)

Scale == Pow10(FracDigits)

\* ------------------------------------------------------------ str and float

Digits == {"0", "1", "2", "3", "4", "5", "6", "7", "8", "9"}

DigitVal(c) ==
    CASE c = "0" -> 0
      [] c = "1" -> 1
      [] c = "2" -> 2
      [] c = "3" -> 3
      [] c = "4" -> 4
      [] c = "5" -> 5
      [] c = "6" -> 6
      [] c = "7" -> 7
      [] c = "8" -> 8
      [] c = "9" -> 9

\* The float nan that read_csv stores for an empty cell. It is not a str.
NaN == <<"nan">>

IsStr(x) == x # NaN

RECURSIVE IntVal(_)
\* The value of a run of decimal digits.
IntVal(ds) ==
    IF ds = <<>> THEN 0
    ELSE 10 * IntVal(SubSeq(ds, 1, Len(ds) - 1)) + DigitVal(ds[Len(ds)])

RECURSIVE FracVal(_, _)
\* The scaled value of the digits after the point, the first worth Scale/10.
FracVal(ds, unit) ==
    IF ds = <<>> THEN 0
    ELSE DigitVal(ds[1]) * (unit \div 10) + FracVal(Tail(ds), unit \div 10)

\* Python's float(str): [sign] digits [. [digits]] or [sign] . digits; anything
\* else over the model's characters raises ValueError (ok = FALSE). Exponents,
\* blanks, underscores, 'inf' and 'nan' are in no string of the model, and
\* neither is a string of more than FracDigits fractional digits, which the
\* scaled integer could not hold.
ParseFloat(s) ==
    LET signed == s # <<>> /\ s[1] \in {"-", "+"}
        body   == IF signed THEN Tail(s) ELSE s
        dots   == {i \in 1..Len(body) : body[i] = "."}
        digs   == {i \in 1..Len(body) : body[i] \in Digits}
        dot    == IF dots = {} THEN Len(body) + 1 ELSE CHOOSE i \in dots : TRUE
        ipart  == SubSeq(body, 1, dot - 1)
        fpart  == SubSeq(body, dot + 1, Len(body))
        mag    == IntVal(ipart) * Scale + FracVal(fpart, Scale)
    IN  IF /\ Cardinality(dots) <= 1
           /\ digs # {}
           /\ dots \cup digs = 1..Len(body)
           /\ Len(fpart) <= FracDigits
        THEN [ok |-> TRUE, v |-> IF signed /\ s[1] = "-" THEN 0 - mag ELSE mag]
        ELSE [ok |-> FALSE]

\* A query key is a str or a number: float(key).
Float(key) ==
    IF key.kind = "num" THEN [ok |-> TRUE, v |-> key.v] ELSE ParseFloat(key.s)

RECURSIVE Split(_, _)
\* str.split(sep) for a one-character separator: every occurrence splits, and
\* empty tokens are kept.
Split(s, sep) ==
    LET at == {i \in 1..Len(s) : s[i] = sep}
    IN  IF at = {} THEN <<s>>
        ELSE LET i == CHOOSE j \in at : \A k \in at : j <= k
             IN  <<SubSeq(s, 1, i - 1)>> \o Split(SubSeq(s, i + 1, Len(s)), sep)

\* ---------------------------------------------------------------- outcomes

Return(v) == [ok |-> TRUE, val |-> v]

Raise(e, m) == [ok |-> FALSE, exc |-> e, msg |-> m]

\* ------------------------------------------------------------------- state

VARIABLES
    phecodes,      \* self.phecodes: the definitions table, a sequence of rows
    phecodemap,    \* self.phecodemap: the mapping table, a sequence of rows
    op,            \* the query method called last ("none" after __init__)
    arg,           \* its argument
    ret,           \* its outcome: Return(value) or Raise(exception, message)
    loaded,        \* history: both tables as __init__ left them
    all_seen,      \* history: the outcomes get_all_phecodes has had
    all_calls      \* history: get_all_phecodes was called "none", "one", "many" times

vars == <<phecodes, phecodemap, op, arg, ret, loaded, all_seen, all_calls>>

\* --------------------------------------------------------------- __init__

\* Rows of the definitions file as read_csv delivers them (dtype str). The
\* columns sex, rollup, leaf, category_number and category are carried like
\* phenotype and read by no query.
SourceRows ==
    { [phecode |-> <<"0", "8">>,      phenotype |-> "a",
       phecode_exclude_range |-> <<"8", "-", "9">>],
      [phecode |-> <<"8">>,           phenotype |-> "b",
       phecode_exclude_range |-> <<"9", "-", "1", "0">>],
      [phecode |-> <<"9">>,           phenotype |-> "c",
       phecode_exclude_range |-> <<"8", "-", "9", "-", "1", "0">>],
      [phecode |-> <<"8", ".", "5">>, phenotype |-> "d",
       phecode_exclude_range |-> <<"8">>],
      [phecode |-> <<"1", "0">>,      phenotype |-> "e",
       phecode_exclude_range |-> <<"8", "-", "A">>],
      [phecode |-> <<"7">>,           phenotype |-> "f",
       phecode_exclude_range |-> NaN] }

\* Rows of the mapping file as read_csv delivers them.
MappingRows ==
    { [icd10 |-> <<"A">>, phecode |-> <<"0", "8">>],
      [icd10 |-> <<"B">>, phecode |-> <<"8">>],
      [icd10 |-> <<"A">>, phecode |-> <<"9">>],
      [icd10 |-> <<"a">>, phecode |-> <<"8", ".", "5">>] }

Tables(rows, n) == UNION {[1..k -> rows] : k \in 0..n}

\* pd.to_numeric over the phecode column: a column with a value that does not
\* parse raises, and no Phemap is constructed.
ToNumericOk(tbl) == \A i \in 1..Len(tbl) : ParseFloat(tbl[i].phecode).ok

\* A variant of WithPhecodeNum: to_numeric downcast to an integer column.
WithPhecodeNum_trunc(tbl) ==
    [i \in 1..Len(tbl) |->
        [phecode |-> tbl[i].phecode,
         phenotype |-> tbl[i].phenotype,
         phecode_exclude_range |-> tbl[i].phecode_exclude_range,
         phecode_num |-> (ParseFloat(tbl[i].phecode).v \div Scale) * Scale]]

WithPhecodeNum(tbl) ==
    [i \in 1..Len(tbl) |->
        [phecode |-> tbl[i].phecode,
         phenotype |-> tbl[i].phenotype,
         phecode_exclude_range |-> tbl[i].phecode_exclude_range,
         phecode_num |-> ParseFloat(tbl[i].phecode).v]]

WithMapPhecodeNum(tbl) ==
    [i \in 1..Len(tbl) |->
        [icd10 |-> tbl[i].icd10,
         phecode |-> tbl[i].phecode,
         phecode_num |-> ParseFloat(tbl[i].phecode).v]]

NoArg == [kind |-> "none"]

Init ==
    \E src \in Tables(SourceRows, MaxRows), map \in Tables(MappingRows, MaxRows) :
        /\ Len(src) + Len(map) <= MaxRows
        /\ ToNumericOk(src)
        /\ ToNumericOk(map)
        /\ phecodes = WithPhecodeNum(src)
        /\ phecodemap = WithMapPhecodeNum(map)
        /\ loaded = <<WithPhecodeNum(src), WithMapPhecodeNum(map)>>
        /\ op = "none"
        /\ arg = NoArg
        /\ ret = Return(<<>>)
        /\ all_seen = {}
        /\ all_calls = "none"

\* ------------------------------------------------------------------ inputs

StrKey(s) == [kind |-> "str", s |-> s]

NumKey(v) == [kind |-> "num", v |-> v]

\* Phecode keys: strings that are in a table, that collide numerically with
\* one, that are in none and that are no number, and a float.
Keys ==
    { StrKey(<<"0", "8">>), StrKey(<<"8">>), StrKey(<<"9">>),
      StrKey(<<"8", ".", "5">>), StrKey(<<"1", "0">>), StrKey(<<"1", "1">>),
      StrKey(<<"A">>), NumKey(8 * Scale) }

\* Diagnosis keys: two that differ in case only, and one that is in no row.
IcdKeys == { <<"A">>, <<"B">>, <<"a">>, <<"C">> }

\* --------------------------------------------------------- get_phecode_info

\* DataFrame.to_dict(orient='records'): one dict per row, in row order.
ToDict(tbl) == [i \in 1..Len(tbl) |-> tbl[i]]

\* A variant of GetPhecodeInfo: an empty result instead of the ValueError.
GetPhecodeInfo_empty(tbl, key) ==
    LET f == Float(key)
    IN  IF ~f.ok THEN Return(<<>>)
        ELSE LET matches == ToDict(SelectSeq(tbl, LAMBDA r : r.phecode_num = f.v))
             IN  IF matches # <<>> THEN Return(matches[1]) ELSE Return(<<>>)

\* A variant of GetPhecodeInfo: matches[-1] instead of matches[0].
GetPhecodeInfo_last(tbl, key) ==
    LET f == Float(key)
    IN  IF ~f.ok THEN Raise("ValueError", <<"could not convert string to float", key>>)
        ELSE LET matches == ToDict(SelectSeq(tbl, LAMBDA r : r.phecode_num = f.v))
             IN  IF matches # <<>> THEN Return(matches[Len(matches)])
                 ELSE Raise("ValueError", <<"Phecode not found", key>>)

\* Lines 168-174. float(phecode) raises ValueError itself on a str that is
\* no number; the message of either ValueError carries the key.
GetPhecodeInfo(tbl, key) ==
    LET f == Float(key)
    IN  IF ~f.ok THEN Raise("ValueError", <<"could not convert string to float", key>>)
        ELSE LET matches == ToDict(SelectSeq(tbl, LAMBDA r : r.phecode_num = f.v))
             IN  IF matches # <<>> THEN Return(matches[1])
                 ELSE Raise("ValueError", <<"Phecode not found", key>>)

get_phecode_info(key) ==
    /\ op' = "get_phecode_info"
    /\ arg' = key
    /\ ret' = GetPhecodeInfo(phecodes, key)
    /\ UNCHANGED <<phecodes, phecodemap, loaded, all_seen, all_calls>>

\* ---------------------------------------------------- get_phecode_for_icd10

\* A variant of GetPhecodeForIcd10: the first match only.
GetPhecodeForIcd10_first(map, icd10) ==
    LET phecode_match == ToDict(SelectSeq(map, LAMBDA r : r.icd10 = icd10))
    IN  IF phecode_match # <<>>
        THEN Return(<<phecode_match[1].phecode>>)
        ELSE Raise("ValueError", <<"Mapping for term not found", icd10>>)

\* A variant of GetPhecodeForIcd10: an empty list instead of the ValueError.
GetPhecodeForIcd10_empty(map, icd10) ==
    LET phecode_match == ToDict(SelectSeq(map, LAMBDA r : r.icd10 = icd10))
    IN  Return([i \in 1..Len(phecode_match) |-> phecode_match[i].phecode])

\* Lines 207-213: an exact string comparison on the icd10 column.
GetPhecodeForIcd10(map, icd10) ==
    LET phecode_match == ToDict(SelectSeq(map, LAMBDA r : r.icd10 = icd10))
    IN  IF phecode_match # <<>>
        THEN Return([i \in 1..Len(phecode_match) |-> phecode_match[i].phecode])
        ELSE Raise("ValueError", <<"Mapping for term not found", icd10>>)

get_phecode_for_icd10(icd10) ==
    /\ op' = "get_phecode_for_icd10"
    /\ arg' = StrKey(icd10)
    /\ ret' = GetPhecodeForIcd10(phecodemap, icd10)
    /\ UNCHANGED <<phecodes, phecodemap, loaded, all_seen, all_calls>>

\* ------------------------------------------------------ get_icd_for_phecode

\* A variant of GetIcdForPhecode: the phecode column compared as strings.
GetIcdForPhecode_str(map, key) ==
    LET f == Float(key)
    IN  IF ~f.ok THEN Raise("ValueError", <<"could not convert string to float", key>>)
        ELSE LET phecode_match ==
                     SelectSeq(map, LAMBDA r : key.kind = "str" /\ r.phecode = key.s)
             IN  IF Len(phecode_match) > 0
                 THEN Return([i \in 1..Len(phecode_match) |-> phecode_match[i].icd10])
                 ELSE Raise("ValueError", <<"No map found for phecode", key>>)

\* Lines 244-250: a comparison of floats on the phecode_num column.
GetIcdForPhecode(map, key) ==
    LET f == Float(key)
    IN  IF ~f.ok THEN Raise("ValueError", <<"could not convert string to float", key>>)
        ELSE LET phecode_match == SelectSeq(map, LAMBDA r : r.phecode_num = f.v)
             IN  IF Len(phecode_match) > 0
                 THEN Return([i \in 1..Len(phecode_match) |-> phecode_match[i].icd10])
                 ELSE Raise("ValueError", <<"No map found for phecode", key>>)

get_icd_for_phecode(key) ==
    /\ op' = "get_icd_for_phecode"
    /\ arg' = key
    /\ ret' = GetIcdForPhecode(phecodemap, key)
    /\ UNCHANGED <<phecodes, phecodemap, loaded, all_seen, all_calls>>

\* --------------------------------------------------- get_phecode_exclusions

\* A variant of InExcludeRange: the upper bound exclusive.
InExcludeRange_open(tbl, lo, hi) ==
    LET phecodes_in_exclude_range ==
            SelectSeq(tbl, LAMBDA r : r.phecode_num >= lo /\ r.phecode_num < hi)
    IN  [i \in 1..Len(phecodes_in_exclude_range) |->
            phecodes_in_exclude_range[i].phecode]

\* Lines 295-299: the rows whose phecode_num is in [lo, hi], their phecode
\* column as a list.
InExcludeRange(tbl, lo, hi) ==
    LET phecodes_in_exclude_range ==
            SelectSeq(tbl, LAMBDA r : r.phecode_num >= lo /\ r.phecode_num <= hi)
    IN  [i \in 1..Len(phecodes_in_exclude_range) |->
            phecodes_in_exclude_range[i].phecode]

\* Lines 291-300. The exception of get_phecode_info propagates; a nan range
\* has no split; the tuple assignment raises ValueError unless split gives
\* two tokens; float() raises ValueError on the first token that is no number.
GetPhecodeExclusions(tbl, key) ==
    LET info == GetPhecodeInfo(tbl, key)
    IN  IF ~info.ok THEN info
        ELSE LET excl_range == info.val.phecode_exclude_range
             IN  IF ~IsStr(excl_range)
                 THEN Raise("AttributeError", <<"'float' object has no attribute 'split'", key>>)
                 ELSE LET toks == Split(excl_range, "-")
                      IN  IF Len(toks) # 2
                          THEN Raise("ValueError", <<"values to unpack", toks>>)
                          ELSE LET ex_start == ParseFloat(toks[1])
                                   ex_end   == ParseFloat(toks[2])
                               IN  IF ~ex_start.ok
                                   THEN Raise("ValueError", <<"could not convert string to float", toks[1]>>)
                                   ELSE IF ~ex_end.ok
                                   THEN Raise("ValueError", <<"could not convert string to float", toks[2]>>)
                                   ELSE Return(InExcludeRange(tbl, ex_start.v, ex_end.v))

\* A variant of get_phecode_exclusions: the table filtered in place.
get_phecode_exclusions_inplace(key) ==
    /\ op' = "get_phecode_exclusions"
    /\ arg' = key
    /\ ret' = GetPhecodeExclusions(phecodes, key)
    /\ phecodes' =
         IF GetPhecodeExclusions(phecodes, key).ok
         THEN SelectSeq(phecodes, LAMBDA r :
                  \E i \in 1..Len(ret'.val) : ret'.val[i] = r.phecode)
         ELSE phecodes
    /\ UNCHANGED <<phecodemap, loaded, all_seen, all_calls>>

get_phecode_exclusions(key) ==
    /\ op' = "get_phecode_exclusions"
    /\ arg' = key
    /\ ret' = GetPhecodeExclusions(phecodes, key)
    /\ UNCHANGED <<phecodes, phecodemap, loaded, all_seen, all_calls>>

\* --------------------------------------------------------- get_all_phecodes

RECURSIVE DropDuplicates(_)
\* DataFrame.drop_duplicates: the first of equal rows is kept.
DropDuplicates(tbl) ==
    IF tbl = <<>> THEN <<>>
    ELSE LET front == SubSeq(tbl, 1, Len(tbl) - 1)
             last  == tbl[Len(tbl)]
         IN  IF \E i \in 1..Len(front) : front[i] = last
             THEN DropDuplicates(front)
             ELSE Append(DropDuplicates(front), last)

\* A variant of GetAllPhecodes: drop_duplicates before to_dict.
GetAllPhecodes_dedup(tbl) == Return(ToDict(DropDuplicates(tbl)))

\* Line 330.
GetAllPhecodes(tbl) == Return(ToDict(tbl))

get_all_phecodes ==
    /\ op' = "get_all_phecodes"
    /\ arg' = NoArg
    /\ ret' = GetAllPhecodes(phecodes)
    /\ all_seen' = all_seen \cup {GetAllPhecodes(phecodes)}
    /\ all_calls' = IF all_calls = "none" THEN "one" ELSE "many"
    /\ UNCHANGED <<phecodes, phecodemap, loaded>>

\* ------------------------------------------------------------ specification

Next ==
    \/ \E key \in Keys : get_phecode_info(key)
    \/ \E icd10 \in IcdKeys : get_phecode_for_icd10(icd10)
    \/ \E key \in Keys : get_icd_for_phecode(key)
    \/ \E key \in Keys : get_phecode_exclusions(key)
    \/ get_all_phecodes

Spec == Init /\ [][Next]_vars

\* ------------------------------------------------------- terms of the claims

\* The exception the three lookups raise for a key with no row (lines 174,
\* 213, 250), and the one the tests expect.
NotFoundError == "ValueError"

RECURSIVE InOrder(_, _)
\* The elements of seq at the indices I, in increasing order of index.
InOrder(seq, I) ==
    IF I = {} THEN <<>>
    ELSE LET m == CHOOSE i \in I : \A j \in I : j <= i
         IN  Append(InOrder(seq, I \ {m}), seq[m])

Rows == 1..Len(phecodes)

MapRows == 1..Len(phecodemap)

\* The records whose code is the string s.
WithCode(s) == {i \in Rows : phecodes[i].phecode = s}

\* The records whose code_numeric is the number v.
WithNumeric(v) == {i \in Rows : phecodes[i].phecode_num = v}

First(I) == CHOOSE i \in I : \A j \in I : i <= j

DistinctCodes ==
    \A i, j \in Rows : i # j => phecodes[i].phecode # phecodes[j].phecode

DistinctNumerics ==
    \A i, j \in Rows : i # j => phecodes[i].phecode_num # phecodes[j].phecode_num

\* An exclude_range "<low>-<high>": two tokens around one '-', both numbers.
WellFormed(r) ==
    /\ IsStr(r)
    /\ Len(Split(r, "-")) = 2
    /\ ParseFloat(Split(r, "-")[1]).ok
    /\ ParseFloat(Split(r, "-")[2]).ok

Low(r) == ParseFloat(Split(r, "-")[1]).v

High(r) == ParseFloat(Split(r, "-")[2]).v

\* The codes of the records whose code_numeric is in [lo, hi], in table order.
CodesWithin(lo, hi) ==
    LET I == {i \in Rows : lo <= phecodes[i].phecode_num /\ phecodes[i].phecode_num <= hi}
        picked == InOrder(phecodes, I)
    IN  [k \in 1..Cardinality(I) |-> picked[k].phecode]

Elems(seq) == {seq[i] : i \in 1..Len(seq)}

\* ------------------------------------------------------------------ claims

\* C1 as stated: in a table of pairwise distinct code strings,
\* get_phecode_info(c) for the code string c of a record returns a record
\* with code c and code_numeric float(c).
C1_DistinctStrings ==
    (/\ op = "get_phecode_info"
     /\ arg.kind = "str"
     /\ DistinctCodes
     /\ WithCode(arg.s) # {})
    => /\ ret.ok
       /\ ret.val.phecode = arg.s
       /\ ret.val.phecode_num = ParseFloat(arg.s).v

\* C1 as amended: in a table of pairwise distinct code_numeric values,
\* get_phecode_info(c) for the code string c of a record returns a record
\* with code c and code_numeric float(c).
C1_DistinctNumerics ==
    (/\ op = "get_phecode_info"
     /\ arg.kind = "str"
     /\ DistinctNumerics
     /\ WithCode(arg.s) # {})
    => /\ ret.ok
       /\ ret.val.phecode = arg.s
       /\ ret.val.phecode_num = ParseFloat(arg.s).v

\* A lookup of the second record's code, a fractional one, in a table of two
\* records with distinct numbers.
C1_Witness ==
    /\ op = "get_phecode_info"
    /\ arg.kind = "str"
    /\ DistinctNumerics
    /\ Len(phecodes) >= 2
    /\ phecodes[2].phecode = arg.s
    /\ phecodes[2].phecode_num % Scale # 0
    /\ ret.ok

\* C2 as stated: get_phecode_exclusions(c), for the code c of a record whose
\* exclude_range is "<low>-<high>", returns the codes of exactly the records
\* with low <= code_numeric <= high, in table order.
C2_RangeOfRecord ==
    (op = "get_phecode_exclusions" /\ arg.kind = "str")
    => \A i \in WithCode(arg.s) :
           WellFormed(phecodes[i].phecode_exclude_range)
           => ret = Return(CodesWithin(Low(phecodes[i].phecode_exclude_range),
                                       High(phecodes[i].phecode_exclude_range)))

\* C2 as amended: the same, for the code c of a record that no earlier record
\* shares its code_numeric with.
C2_RangeOfFirstRecord ==
    (op = "get_phecode_exclusions" /\ arg.kind = "str")
    => \A i \in WithCode(arg.s) :
           (/\ i = First(WithNumeric(phecodes[i].phecode_num))
            /\ WellFormed(phecodes[i].phecode_exclude_range))
           => ret = Return(CodesWithin(Low(phecodes[i].phecode_exclude_range),
                                       High(phecodes[i].phecode_exclude_range)))

\* An exclusion list that holds a record on each end of the range and leaves
\* no record of the table out of order.
C2_Witness ==
    /\ op = "get_phecode_exclusions"
    /\ arg.kind = "str"
    /\ ret.ok
    /\ \E i \in WithCode(arg.s) :
          LET r == phecodes[i].phecode_exclude_range
          IN  /\ i = First(WithNumeric(phecodes[i].phecode_num))
              /\ WellFormed(r)
              /\ \E j, k \in Rows :
                    /\ phecodes[j].phecode_num = Low(r)
                    /\ phecodes[k].phecode_num = High(r)
                    /\ j # k
                    /\ {phecodes[j].phecode, phecodes[k].phecode} \subseteq Elems(ret.val)

\* C3 as stated: if get_icd_for_phecode(p) succeeds and its result holds d,
\* then get_phecode_for_icd10(d) succeeds and its result holds p.
C3_HoldsKey ==
    (op = "get_icd_for_phecode" /\ arg.kind = "str" /\ ret.ok)
    => \A d \in Elems(ret.val) :
           /\ GetPhecodeForIcd10(phecodemap, d).ok
           /\ arg.s \in Elems(GetPhecodeForIcd10(phecodemap, d).val)

\* C3 as amended: if get_icd_for_phecode(p) succeeds and its result holds d,
\* then get_phecode_for_icd10(d) succeeds and its result holds a phecode
\* whose float is float(p).
C3_HoldsNumericEqual ==
    (op = "get_icd_for_phecode" /\ ret.ok)
    => \A d \in Elems(ret.val) :
           /\ GetPhecodeForIcd10(phecodemap, d).ok
           /\ \E x \in Elems(GetPhecodeForIcd10(phecodemap, d).val) :
                  ParseFloat(x) = Float(arg)

\* A phecode key that no mapping row stores as written, with a diagnosis
\* found for it.
C3_Witness ==
    /\ op = "get_icd_for_phecode"
    /\ arg.kind = "str"
    /\ ret.ok
    /\ \A i \in MapRows : phecodemap[i].phecode # arg.s

\* C4: get_phecode_for_icd10(d) returns the phecode of every mapping row whose
\* icd10 is the string d, one per row in table order, and raises the
\* not-found error when there is no such row.
C4_PhecodesOfDiagnosis ==
    op = "get_phecode_for_icd10"
    => LET I == {i \in MapRows : phecodemap[i].icd10 = arg.s}
           picked == InOrder(phecodemap, I)
       IN  IF I = {}
           THEN ~ret.ok /\ ret.exc = NotFoundError
           ELSE ret = Return([k \in 1..Cardinality(I) |-> picked[k].phecode])

\* A diagnosis mapped by two rows to the same phecode: both are returned.
C4_Witness ==
    /\ op = "get_phecode_for_icd10"
    /\ ret.ok
    /\ Len(ret.val) = 2
    /\ ret.val[1] = ret.val[2]

\* C5: get_icd_for_phecode(k) returns the icd10 of exactly the mapping rows
\* whose phecode_num is float(k), in table order, raises the not-found error
\* when there is none, and so has the same outcome for keys of equal float.
C5_DiagnosesOfPhecode ==
    op = "get_icd_for_phecode"
    => LET f == Float(arg)
           I == IF f.ok THEN {i \in MapRows : phecodemap[i].phecode_num = f.v} ELSE {}
           picked == InOrder(phecodemap, I)
       IN  /\ IF I = {}
              THEN ~ret.ok /\ ret.exc = NotFoundError
              ELSE ret = Return([k \in 1..Cardinality(I) |-> picked[k].icd10])
           /\ \A k2 \in Keys :
                  (f.ok /\ Float(k2) = f)
                  => LET other == GetIcdForPhecode(phecodemap, k2)
                     IN  /\ other.ok = ret.ok
                         /\ ret.ok => other.val = ret.val
                         /\ ~ret.ok => other.exc = ret.exc

\* A number as the key, matched by two rows.
C5_Witness ==
    /\ op = "get_icd_for_phecode"
    /\ arg.kind = "num"
    /\ ret.ok
    /\ Len(ret.val) = 2
    /\ phecodemap[1].phecode # phecodemap[2].phecode

\* C6: get_phecode_info(k) raises the not-found error for every key that
\* matches no record, a key that is no number included.
C6_NotFound ==
    (/\ op = "get_phecode_info"
     /\ (Float(arg).ok => WithNumeric(Float(arg).v) = {}))
    => ~ret.ok /\ ret.exc = NotFoundError

\* A key that is no number, looked up in a table that has records.
C6_Witness ==
    /\ op = "get_phecode_info"
    /\ ~Float(arg).ok
    /\ phecodes # <<>>
    /\ ~ret.ok

\* C7: get_phecode_exclusions(c) for the code c of a record whose
\* exclude_range is not "<low>-<high>" fails with an error of a kind other
\* than the not-found error.
C7_MalformedIsDistinct ==
    (/\ op = "get_phecode_exclusions"
     /\ arg.kind = "str"
     /\ DistinctNumerics
     /\ \E i \in WithCode(arg.s) : ~WellFormed(phecodes[i].phecode_exclude_range))
    => ~ret.ok /\ ret.exc # NotFoundError

\* C8: get_all_phecodes() returns one record per loaded row in table order,
\* and every call has the same outcome.
C8_AllRecords ==
    /\ op = "get_all_phecodes"
       => /\ ret.ok
          /\ Len(ret.val) = Len(loaded[1])
          /\ \A i \in 1..Len(loaded[1]) : ret.val[i] = loaded[1][i]
          /\ all_seen = {ret}
    /\ Cardinality(all_seen) <= 1

\* A repeated call on a table that holds the same row twice.
C8_Witness ==
    /\ op = "get_all_phecodes"
    /\ all_calls = "many"
    /\ Len(ret.val) >= 2
    /\ ret.val[1] = ret.val[2]

\* C9: after construction every query, failed or not, leaves both tables as
\* __init__ built them.
C9_TablesUnchanged ==
    /\ phecodes = loaded[1]
    /\ phecodemap = loaded[2]

\* An exclusion query that returned fewer codes than the table has records.
C9_Witness ==
    /\ op = "get_phecode_exclusions"
    /\ ret.ok
    /\ Len(ret.val) < Len(phecodes)

\* C10: when several records have the code_numeric of the key,
\* get_phecode_info returns the first of them and get_phecode_exclusions
\* goes by the exclude_range of the first.
C10_FirstOfEqualNumerics ==
    (/\ op \in {"get_phecode_info", "get_phecode_exclusions"}
     /\ Float(arg).ok
     /\ Cardinality(WithNumeric(Float(arg).v)) >= 2)
    => LET first == phecodes[First(WithNumeric(Float(arg).v))]
           r == first.phecode_exclude_range
       IN  /\ op = "get_phecode_info" => ret = Return(first)
           /\ op = "get_phecode_exclusions" =>
                 IF WellFormed(r) THEN ret = Return(CodesWithin(Low(r), High(r)))
                 ELSE ~ret.ok

\* Two records of one number with different ranges, and the exclusions of the
\* key that is the second record's code.
C10_Witness ==
    /\ op = "get_phecode_exclusions"
    /\ arg.kind = "str"
    /\ ret.ok
    /\ Len(phecodes) >= 2
    /\ phecodes[1].phecode_num = phecodes[2].phecode_num
    /\ phecodes[1].phecode_exclude_range # phecodes[2].phecode_exclude_range
    /\ phecodes[2].phecode = arg.s

====
